---- MODULE Spec2Model ----
(***************************************************************************)
(* One run of TableExtractor.extract_from_pdf                              *)
(* (src/sow_extractor/extractors/table_extractor.py).                      *)
(*                                                                         *)
(* Text is kept tokenised: a text is a sequence of lines, a line a         *)
(* sequence of whitespace-separated words, the empty text is << >>.        *)
(* A grid is a sequence of rows, a row a sequence of cells, a cell a       *)
(* sequence of words (<< >> is the empty or null cell).                    *)
(* Every call into the completion service may return any response or       *)
(* raise.  Spec runs extract_from_pdf over a document reader and a file    *)
(* system whose calls all return; in SpecFaults each of those calls may    *)
(* return or raise, the choice made per call.  SpecService adds what is    *)
(* around extract_from_pdf: SOWOrchestrator.process_sow_document           *)
(* (src/sow_extractor/core/orchestrator.py), TargetProcessClient           *)
(* (src/sow_extractor/services/targetprocess_client.py) and the response   *)
(* of the endpoint (src/app.py).                                           *)
(***************************************************************************)
EXTENDS Integers, Sequences, FiniteSets, TLC

VARIABLES
    pdf,               \* the document: sequence of pages [tables, text]
    pc,                \* position in extract_from_pdf
    tables_data,       \* content blocks of _extract_tables_from_pdf
    markdown,          \* audit file: [rendered, written]
    milestone_tables,  \* blocks kept by _identify_milestone_tables
    milestone_text,    \* text pool of _extract_milestone_text
    idx,               \* number of relevant blocks already processed
    all_milestones,    \* milestones collected so far, in collection order
    calls,             \* completion calls issued so far, in order
    last,              \* the latest _process_milestone_content call
    from_blocks,       \* len(all_milestones) when the block loop ended
    milestones,        \* the deduplicated list _extract_milestones_from_all_sources returns
    deliverables_call, \* the response to the deliverables completion call, if issued
    result,            \* the envelope returned by extract_from_pdf
    raised,            \* the exception leaving the run, if any
    file,              \* what pdf_path holds: "pdf", "not_pdf" or "missing"
    tp,                \* TargetProcess settings: [domain, token], TRUE when set
    sends,             \* tp_results: per milestone sent, TRUE for a response, FALSE for None
    final,             \* the envelope returned by process_sow_document
    http,              \* the response of the endpoint: [status, milestones]
    request,           \* the request an endpoint received, if any
    temp_file,         \* the temporary file: [exists, path], path TRUE once
                       \* temp_file_path is assigned
    orchestrated       \* process_sow_document has been called

vars == <<pdf, pc, tables_data, markdown, milestone_tables, milestone_text,
          idx, all_milestones, calls, last, from_blocks, milestones,
          deliverables_call, result, raised, file, tp, sends, final, http,
          request, temp_file, orchestrated>>

\* the state of the orchestrator and the endpoint around extract_from_pdf
svars == <<file, tp, sends, final, http>>

\* the state of the endpoint before process_sow_document
evars == <<request, temp_file, orchestrated>>

(***************************************************************************)
(* Bounds                                                                  *)
(***************************************************************************)
MaxPages == 2

(***************************************************************************)
(* Program constants                                                       *)
(***************************************************************************)
\* len(all_milestones) < 5 : the text pool is consulted below this count
FewMilestones == 5
\* keyword_count >= 3
MinKeywords == 3
\* table_like_lines >= 2
MinTableLikeLines == 2
\* len(line_lower.split()) >= 3
MinWords == 3
\* len(table) > 1
MinRows == 2
\* "confidence": 1.0 and 0.8, in tenths
TableConfidence == 10
TextConfidence == 8
\* "processing_confidence": 0.95, in hundredths
ProcessingConfidence == 95
\* the literals "text_content" and "text" that stand where a block has a
\* page number and a table index
TextContentPage == -1
TextIndex == -1

(***************************************************************************)
(* Sequences                                                               *)
(***************************************************************************)
RECURSIVE Flatten(_)
Flatten(ss) == IF ss = << >> THEN << >> ELSE Head(ss) \o Flatten(Tail(ss))

RECURSIVE SelectIdx(_, _, _)
\* the indices i in lo..Len(s), ascending, as a sequence, for which keep[i]
SelectIdx(keep, lo, hi) ==
    IF lo > hi THEN << >>
    ELSE (IF keep[lo] THEN <<lo>> ELSE << >>) \o SelectIdx(keep, lo + 1, hi)

(***************************************************************************)
(* str.lower() and the substring test `term in text`, on tokenised text    *)
(***************************************************************************)
Lower(w) ==
    CASE w = "Phase" -> "phase"
      [] w = "Due" -> "due"
      [] w = "Date" -> "date"
      [] w = "Amount" -> "amount"
      [] w = "Milestone" -> "milestone"
      [] w = "Payment" -> "payment"
      [] w = "Deliverables" -> "deliverables"
      [] w = "Kickoff" -> "kickoff"
      [] w = "Scope" -> "scope"
      [] w = "Schedule" -> "schedule"
      [] w = "Tasks" -> "tasks"
      [] OTHER -> w

\* the one-word terms of the vocabularies that occur inside a lower-case word
TermsInWord(w) ==
    CASE w = "phase" -> {"phase"}
      [] w = "due" -> {"due"}
      [] w = "date" -> {"date"}
      [] w = "amount" -> {"amount"}
      [] w = "milestone" -> {"milestone"}
      [] w = "payment" -> {"payment"}
      [] w = "deliverables" -> {"deliverable", "deliverables"}
      [] w = "$5000" -> {"$"}
      [] w = "schedule" -> {"schedule"}
      [] w = "tasks" -> {"task"}
      [] OTHER -> {}

LowerLine(line) == [i \in 1..Len(line) |-> Lower(line[i])]
LowerText(text) == [i \in 1..Len(text) |-> LowerLine(text[i])]

\* `term in line` for a lower-case line; "due date" is the only term with a
\* space in it and needs two neighbouring words
InLine(term, line) ==
    IF term = "due date"
    THEN \E i \in 1..(Len(line) - 1) : line[i] = "due" /\ line[i + 1] = "date"
    ELSE \E i \in 1..Len(line) : term \in TermsInWord(line[i])

InText(term, text) == \E i \in 1..Len(text) : InLine(term, text[i])

(***************************************************************************)
(* The documents                                                           *)
(***************************************************************************)
KickoffGrid ==
    << << <<"Phase">>, <<"Due", "Date">>, <<"Amount">> >>,
       << <<"Kickoff">>, <<"2024-01-15">>, <<"$5000">> >> >>

HeaderOnlyGrid == << << <<"Phase">>, <<"Due", "Date">>, <<"Amount">> >> >>

\* two keywords, phase and amount; "due | date" is no "due date"
SplitDueDateGrid ==
    << << <<"Phase">>, <<"Due">>, <<"Date">>, <<"Amount">> >>,
       << <<"Kickoff">>, <<"2024-01-15">>, << >>, <<"$5000">> >> >>

KickoffText ==
    << <<"Phase", "Due", "Date", "Amount">>, <<"Kickoff", "2024-01-15", "$5000">> >>

ScheduleText ==
    << <<"Milestone", "1", "Payment", "$5000">>, <<"Phase", "2", "Amount">> >>

DeliverablesPageText == << <<"Deliverables">>, <<"Scope", "of", "work">> >>

PlainText == << <<"Scope", "of", "work">> >>

TimelineText == << <<"Project", "Schedule">>, <<"Tasks", "and", "owners">> >>

PageKinds ==
    { [tables |-> <<KickoffGrid>>, text |-> KickoffText],
      [tables |-> <<HeaderOnlyGrid, SplitDueDateGrid>>, text |-> DeliverablesPageText],
      [tables |-> << >>, text |-> ScheduleText],
      [tables |-> << >>, text |-> PlainText],
      [tables |-> << >>, text |-> TimelineText],
      [tables |-> << >>, text |-> << >>] }

Documents == UNION { [1..n -> PageKinds] : n \in 0..MaxPages }

\* the documents read through a faulty reader
FaultPageKinds ==
    { [tables |-> <<KickoffGrid>>, text |-> KickoffText],
      [tables |-> <<HeaderOnlyGrid, SplitDueDateGrid>>, text |-> DeliverablesPageText],
      [tables |-> << >>, text |-> ScheduleText],
      [tables |-> << >>, text |-> PlainText],
      [tables |-> << >>, text |-> << >>] }

FaultDocuments == UNION { [1..n -> FaultPageKinds] : n \in 0..MaxPages }

(***************************************************************************)
(* Segmentation: _extract_tables_from_pdf                                  *)
(***************************************************************************)
RECURSIVE JoinCells(_)
\* " | ".join(cleaned_row)
JoinCells(row) ==
    IF row = << >> THEN << >>
    ELSE IF Len(row) = 1 THEN Head(row)
    ELSE Head(row) \o <<"|">> \o JoinCells(Tail(row))

\* _table_to_text: one line per non-empty row
TableToText(table) ==
    LET rows == SelectIdx([i \in 1..Len(table) |-> table[i] # << >>], 1, Len(table))
    IN  [k \in 1..Len(rows) |-> JoinCells(table[rows[k]])]

TableIndicators ==
    {"milestone", "phase", "payment", "deliverable", "amount", "date", "percentage", "$", "%"}

\* _looks_like_table_text
LooksLikeTableText(text) ==
    LET lower == LowerText(text)
        table_like_lines ==
            Cardinality({i \in 1..Len(lower) :
                /\ Len(lower[i]) >= MinWords
                /\ \E indicator \in TableIndicators : InLine(indicator, lower[i])})
    IN  table_like_lines >= MinTableLikeLines

\* the outcomes of one call: TRUE when it returns, FALSE when it raises
Dependable == {TRUE}
Faulty == BOOLEAN

\* what the three reader calls of one page do in _extract_tables_from_pdf:
\* extract_tables(), extract_text(), and extract_text() of the fallback
SegOutcomes(io) == [tables : io, text : io, retry : io]

\* every table block tagged with index 0 instead of its position
TableBlockFirstIndex(page_num, table_index, table) ==
    [page |-> page_num, table_index |-> 0, data |-> table,
     text_content |-> TableToText(table), type |-> "table"]

TableBlock(page_num, table_index, table) ==
    [page |-> page_num, table_index |-> table_index, data |-> table,
     text_content |-> TableToText(table), type |-> "table"]

TextBlock(page_num, text, type) ==
    [page |-> page_num, table_index |-> 0, data |-> << >>,
     text_content |-> text, type |-> type]

\* the except branch of the page loop
FallbackBlocks(page_num, page, o) ==
    IF o.retry /\ page.text # << >>
    THEN <<TextBlock(page_num, page.text, "fallback_text")>>
    ELSE << >>

\* `if table:` alone, which lets a header-only grid through
NotEmpty(table) == Len(table) >= 1

\* `if table and len(table) > 1`: header + data
HasHeaderAndData(table) == Len(table) >= MinRows

\* the blocks one page appends to tables_data; page_num is 0-based
PageBlocks(page_num, page, o) ==
    IF ~o.tables THEN FallbackBlocks(page_num, page, o)
    ELSE IF page.tables # << >>
    THEN LET tables == page.tables
             kept == SelectIdx([i \in 1..Len(tables) |-> HasHeaderAndData(tables[i])],
                               1, Len(tables))
         IN  [k \in 1..Len(kept) |-> TableBlock(page_num, kept[k] - 1, tables[kept[k]])]
    ELSE IF ~o.text THEN FallbackBlocks(page_num, page, o)
    ELSE IF page.text # << >> /\ LooksLikeTableText(page.text)
    THEN <<TextBlock(page_num, page.text, "text_table")>>
    ELSE << >>

ExtractTables(doc, outcome) ==
    Flatten([i \in 1..Len(doc) |-> PageBlocks(i - 1, doc[i], outcome[i])])

(***************************************************************************)
(* Relevance: _identify_milestone_tables and _extract_milestone_text       *)
(***************************************************************************)
BlockKeywords ==
    {"milestone", "phase", "payment", "due date", "amount", "percentage",
     "description", "duration"}

\* the count without .lower()
KeywordCountCaseSensitive(table_data) ==
    Cardinality({keyword \in BlockKeywords : InText(keyword, table_data.text_content)})

KeywordCount(table_data) ==
    Cardinality({keyword \in BlockKeywords :
                    InText(keyword, LowerText(table_data.text_content))})

IdentifyMilestoneTables(blocks) ==
    LET kept == SelectIdx([i \in 1..Len(blocks) |-> KeywordCount(blocks[i]) >= MinKeywords],
                          1, Len(blocks))
    IN  [k \in 1..Len(kept) |-> blocks[kept[k]]]

PageTextKeywords ==
    {"milestone", "phase", "task", "deliverable", "schedule", "timeline",
     "completion", "due", "deadline", "payment"}

\* every page with text goes into the pool
HasAnyText(text) == text # << >>

HasPageTextKeyword(text) == \E keyword \in PageTextKeywords : InText(keyword, LowerText(text))

\* extract_text() and extract_text(layout=False) of one page
TextOutcomes(io) == [text : io, retry : io]

\* the entry one page adds to the pool: "=== Page n ===" or "=== Page n (Raw) ==="
PoolEntries(page_num, page, o) ==
    IF (o.text \/ o.retry) /\ page.text # << >> /\ HasPageTextKeyword(page.text)
    THEN <<[page |-> page_num + 1, raw |-> ~o.text, text |-> page.text]>>
    ELSE << >>

\* opened is FALSE when pdfplumber.open raises: the pool stays empty
ExtractMilestoneText(doc, opened, outcome) ==
    IF ~opened THEN << >>
    ELSE Flatten([i \in 1..Len(doc) |-> PoolEntries(i - 1, doc[i], outcome[i])])

(***************************************************************************)
(* Markdown audit file: _convert_pdf_to_markdown                           *)
(***************************************************************************)
\* per page the "## Page n" heading, the text lines, and the grids with more
\* than one row under their "#### Table k" numbers
ConvertPdfToMarkdown(doc) ==
    [i \in 1..Len(doc) |->
        LET tables == doc[i].tables
            kept == SelectIdx([t \in 1..Len(tables) |-> Len(tables[t]) >= MinRows],
                              1, Len(tables))
        IN  [heading |-> i,
             lines |-> doc[i].text,
             tables |-> [k \in 1..Len(kept) |-> [number |-> kept[k], grid |-> tables[kept[k]]]]]]

\* the test without .lower()
DeliverablesPagesCaseSensitive(doc) ==
    SelectIdx([i \in 1..Len(doc) |->
                  /\ doc[i].text # << >>
                  /\ (InText("deliverables", doc[i].text) \/ InText("phase", doc[i].text))],
              1, Len(doc))

\* the pages whose text goes into deliverables_text
DeliverablesPages(doc) ==
    SelectIdx([i \in 1..Len(doc) |->
                  /\ doc[i].text # << >>
                  /\ (InText("deliverables", LowerText(doc[i].text))
                      \/ InText("phase", LowerText(doc[i].text)))],
              1, Len(doc))

DeliverablesScan(doc) ==
    LET pages == DeliverablesPages(doc) IN [k \in 1..Len(pages) |-> doc[pages[k]].text]

(***************************************************************************)
(* Completion responses and JSON values                                    *)
(*                                                                         *)
(* A JSON value is [type, items]: items are the elements of an array, the  *)
(* keys of an object or the characters of a string (what a for loop over   *)
(* the value visits).  An item with obj = TRUE is a JSON object (a dict);  *)
(* a field it lacks holds Absent, a null field holds Null and a field      *)
(* whose value is a JSON array holds ListValue.  source_table is << >>     *)
(* when the key is absent and <<[page, table_index, confidence]>> when set.*)
(***************************************************************************)
Absent == "<absent>"
Null == "<null>"
ListValue == "<list>"

Obj(name, description, due_date, source_table) ==
    [obj |-> TRUE, name |-> name, description |-> description, due_date |-> due_date,
     payment_amount |-> Null, source_table |-> source_table]

\* a number, string, null or nested array standing as an element
Scalar ==
    [obj |-> FALSE, name |-> Absent, description |-> Absent, due_date |-> Absent,
     payment_amount |-> Absent, source_table |-> << >>]

Kickoff1 == Obj("Kickoff", "Kickoff", "2024-01-15", << >>)
Kickoff2 == Obj("Kickoff", "Project kickoff", "2024-01-15", << >>)
DesignNull == Obj("Design", "Design phase", Null, << >>)
DesignAbsent == Obj("Design", "Design", Absent, << >>)
DesignEmpty == Obj("Design", "Design review", "", << >>)
\* an object that already carries a source_table of the model's making
Tagged == Obj("Kickoff", "Kickoff", "2024-02-01",
              <<[page |-> 0, table_index |-> 1, confidence |-> TableConfidence]>>)
ListNamed == Obj(ListValue, "Go-live", Null, << >>)
Unnamed == Obj(Absent, "Sign-off", "2024-04-01", << >>)
Undescribed == Obj("Review", Null, Null, << >>)

Array(items) == [type |-> "array", items |-> items]
Object(keys) == [type |-> "object", items |-> keys]
Number == [type |-> "number", items |-> << >>]

\* a response text is a sequence of segments: a ``` fence, the word json,
\* prose, or the text of one JSON value
Fence == [t |-> "fence", v |-> Number]
Lang == [t |-> "lang", v |-> Number]
Prose == [t |-> "prose", v |-> Number]
Json(v) == [t |-> "json", v |-> v]

\* status: "ok" the call returned content, "none" it returned content None,
\* "raise" the completion service raised
Ok(content) == [status |-> "ok", content |-> content]
NoContent == [status |-> "none", content |-> << >>]
ServiceError == [status |-> "raise", content |-> << >>]

Responses ==
    { Ok(<<Json(Array(<< >>))>>),
      Ok(<<Json(Array(<<Kickoff1>>))>>),
      Ok(<<Fence, Lang, Json(Array(<<Kickoff2, DesignNull>>)), Fence>>),
      Ok(<<Fence, Json(Array(<<Kickoff1, DesignAbsent, DesignEmpty>>)), Fence, Prose>>),
      Ok(<<Json(Array(<<Tagged>>))>>),
      Ok(<<Json(Array(<<ListNamed>>))>>),
      Ok(<<Json(Array(<<Unnamed, Undescribed>>))>>),
      Ok(<<Json(Array(<<Kickoff1, Scalar>>))>>),
      Ok(<<Json(Object(<<Scalar>>))>>),
      Ok(<<Json(Object(<< >>))>>),
      Ok(<<Json(Number)>>),
      Ok(<<Prose>>),
      Ok(<<Prose, Json(Array(<<Kickoff1>>))>>),
      Ok(<<Fence>>),
      NoContent,
      ServiceError }

\* the part of segs before its first fence
RECURSIVE UpToFence(_)
UpToFence(segs) ==
    IF segs = << >> \/ Head(segs).t = "fence" THEN << >>
    ELSE <<Head(segs)>> \o UpToFence(Tail(segs))

\* "Clean up response": result_text.split("```")[1], minus a leading json
CleanResponse(segs) ==
    IF segs # << >> /\ Head(segs).t = "fence"
    THEN LET inner == UpToFence(Tail(segs))
         IN  IF inner # << >> /\ Head(inner).t = "lang" THEN Tail(inner) ELSE inner
    ELSE segs

\* a parser that digs the first JSON value out of the surrounding text
JsonLoadsLenient(segs) ==
    LET found == SelectIdx([i \in 1..Len(segs) |-> segs[i].t = "json"], 1, Len(segs))
    IN  IF found # << >>
        THEN [ok |-> TRUE, value |-> segs[found[1]].v]
        ELSE [ok |-> FALSE, value |-> Number]

\* json.loads: the text must be exactly one JSON value
JsonLoads(segs) ==
    IF Len(segs) = 1 /\ segs[1].t = "json"
    THEN [ok |-> TRUE, value |-> segs[1].v]
    ELSE [ok |-> FALSE, value |-> Number]

(***************************************************************************)
(* _process_milestone_content                                              *)
(***************************************************************************)
\* source_data of a block, and None for the text pool
BlockSource(table_data) ==
    [present |-> TRUE, page |-> table_data.page, table_index |-> table_data.table_index]
NoSource == [present |-> FALSE, page |-> TextContentPage, table_index |-> TextIndex]

\* milestone.setdefault("source_table", {...}): a tag already there stays
SourceTableKeep(milestone, source_data) ==
    IF milestone.source_table # << >> THEN milestone.source_table
    ELSE IF source_data.present
    THEN <<[page |-> source_data.page, table_index |-> source_data.table_index,
            confidence |-> TableConfidence]>>
    ELSE <<[page |-> TextContentPage, table_index |-> TextIndex,
            confidence |-> TextConfidence]>>

\* milestone["source_table"] = {...}
SourceTable(milestone, source_data) ==
    IF source_data.present
    THEN <<[page |-> source_data.page, table_index |-> source_data.table_index,
            confidence |-> TableConfidence]>>
    ELSE <<[page |-> TextContentPage, table_index |-> TextIndex,
            confidence |-> TextConfidence]>>

Iterable(v) == v.type \in {"array", "object", "string"}

\* `return []`, of a call that was or was not issued
Returns(called, value) == [called |-> called, raises |-> FALSE, value |-> value]

\* the exception of the completion service leaving the function
ServiceErrorUncaught == [called |-> TRUE, raises |-> TRUE, value |-> Array(<< >>)]

\* `except Exception as e: ... return []`
ServiceErrorCaught == Returns(TRUE, Array(<< >>))

\* what the call does: [called, raises, value], value the list (or other
\* JSON value) handed to all_milestones.extend; every exception ends in
\* return []
ProcessMilestoneContent(content_text, source_data, response) ==
    IF content_text = << >> THEN Returns(FALSE, Array(<< >>))
    ELSE IF response.status = "raise" THEN ServiceErrorCaught
    ELSE IF response.status # "ok" THEN Returns(TRUE, Array(<< >>))
    ELSE LET parsed == JsonLoads(CleanResponse(response.content))
             v == parsed.value
         IN  IF ~parsed.ok THEN Returns(TRUE, Array(<< >>))
             ELSE IF ~Iterable(v) \/ \E i \in 1..Len(v.items) : ~v.items[i].obj
             THEN Returns(TRUE, Array(<< >>))
             ELSE [called |-> TRUE, raises |-> FALSE,
                   value |-> [v EXCEPT !.items =
                       [i \in 1..Len(v.items) |->
                           [v.items[i] EXCEPT !.source_table =
                               SourceTable(v.items[i], source_data)]]]]

\* all_milestones.extend(milestones)
Extend(list, v) == list \o v.items

\* `milestone_text and len(all_milestones) <= 5`
NeedsTextPoolInclusive(text, count) == text # << >> /\ count <= FewMilestones

\* `milestone_text and not all_milestones`
NeedsTextPoolWhenNone(text, count) == text # << >> /\ count = 0

\* `milestone_text and len(all_milestones) < 5`
NeedsTextPool(text, count) == text # << >> /\ count < FewMilestones

(***************************************************************************)
(* "Remove duplicates based on name and due_date"                          *)
(***************************************************************************)
\* dict.get(key, default)
Get(value, default) == IF value = Absent THEN default ELSE value

Key(milestone) == <<Get(milestone.name, ""), Get(milestone.due_date, "")>>

\* a tuple holding a list cannot be hashed: `key not in seen` raises TypeError
Hashable(key) == key[1] # ListValue /\ key[2] # ListValue

\* the loop without seen.add(key)
UniqueFromForgetful(list, seen) ==
    SelectSeq(list, LAMBDA milestone : Key(milestone) \notin seen)

\* the loop keeping the last record of a key instead of the first
RECURSIVE UniqueFromLast(_, _)
UniqueFromLast(list, seen) ==
    IF list = << >> THEN << >>
    ELSE IF \E i \in 2..Len(list) : Key(list[i]) = Key(Head(list))
    THEN UniqueFromLast(Tail(list), seen)
    ELSE <<Head(list)>> \o UniqueFromLast(Tail(list), seen)

\* the loop forgetting a key once it has dropped a record for it
RECURSIVE UniqueFromToggle(_, _)
UniqueFromToggle(list, seen) ==
    IF list = << >> THEN << >>
    ELSE LET key == Key(Head(list))
         IN  IF key \notin seen
             THEN <<Head(list)>> \o UniqueFromToggle(Tail(list), seen \cup {key})
             ELSE UniqueFromToggle(Tail(list), seen \ {key})

RECURSIVE UniqueFrom(_, _)
UniqueFrom(list, seen) ==
    IF list = << >> THEN << >>
    ELSE LET key == Key(Head(list))
         IN  IF key \notin seen
             THEN <<Head(list)>> \o UniqueFrom(Tail(list), seen \cup {key})
             ELSE UniqueFrom(Tail(list), seen)

RemoveDuplicates(list) ==
    IF \E i \in 1..Len(list) : ~Hashable(Key(list[i]))
    THEN [raises |-> TRUE, unique |-> << >>]
    ELSE [raises |-> FALSE, unique |-> UniqueFrom(list, {})]

(***************************************************************************)
(* _extract_deliverables_from_text                                         *)
(***************************************************************************)
Deliv(name, delivery_date) ==
    [obj |-> TRUE, name |-> name, description |-> name,
     delivery_date |-> delivery_date, related_milestone |-> Null]

Report == Deliv("Report", "2024-03-01")
Handbook == Deliv("Handbook", Null)
DelivScalar ==
    [obj |-> FALSE, name |-> Absent, description |-> Absent,
     delivery_date |-> Absent, related_milestone |-> Absent]

DeliverableResponses ==
    { Ok(<<Json(Array(<< >>))>>),
      Ok(<<Json(Array(<<Report, Handbook, Report>>))>>),
      Ok(<<Fence, Lang, Json(Array(<<Handbook>>)), Fence>>),
      Ok(<<Json(Array(<<DelivScalar>>))>>),
      Ok(<<Json(Object(<<DelivScalar>>))>>),
      Ok(<<Json(Number)>>),
      Ok(<<Json(Array(<<Kickoff1>>))>>),
      Ok(<<Prose>>),
      NoContent,
      ServiceError }

\* what the call made for a non-empty deliverables_text does: the parsed
\* value is returned as it is, every exception ends in return []
DeliverablesFromResponse(response) ==
    IF response.status = "raise" THEN ServiceErrorCaught
    ELSE IF response.status # "ok" THEN Returns(TRUE, Array(<< >>))
    ELSE LET parsed == JsonLoads(CleanResponse(response.content))
         IN  IF parsed.ok THEN Returns(TRUE, parsed.value)
             ELSE Returns(TRUE, Array(<< >>))

(***************************************************************************)
(* extract_from_pdf, step by step                                          *)
(***************************************************************************)
NoCall == [kind |-> "none", called |-> FALSE, response |-> NoContent, before |-> << >>]

\* a caller of the orchestrator or the extractor that is no endpoint
NoRequest == [endpoint |-> "none", filename_pdf |-> TRUE, decodes |-> TRUE, magic |-> TRUE]
NoTempFile == [exists |-> FALSE, path |-> FALSE]

\* nothing extracted, sent or returned yet
Fresh ==
    /\ temp_file = NoTempFile
    /\ orchestrated = FALSE
    /\ sends = << >>
    /\ final = << >>
    /\ http = << >>
    /\ tables_data = << >>
    /\ markdown = [rendered |-> << >>, written |-> FALSE]
    /\ milestone_tables = << >>
    /\ milestone_text = << >>
    /\ idx = 0
    /\ all_milestones = << >>
    /\ calls = << >>
    /\ last = NoCall
    /\ from_blocks = 0
    /\ milestones = << >>
    /\ deliverables_call = << >>
    /\ result = << >>
    /\ raised = << >>

\* extract_from_pdf is entered with the path of a PDF
Init ==
    /\ pdf \in Documents
    /\ pc = "segment"
    /\ file = "pdf"
    /\ tp = [domain |-> FALSE, token |-> FALSE]
    /\ request = NoRequest
    /\ Fresh

\* pages for the segmenter: several grids on a page, an empty grid, a page
\* with nothing but a header-only grid over text that looks like a table
SegmentPageKinds ==
    PageKinds \cup
    { [tables |-> <<KickoffGrid, HeaderOnlyGrid, SplitDueDateGrid>>, text |-> KickoffText],
      [tables |-> <<HeaderOnlyGrid>>, text |-> ScheduleText],
      [tables |-> <<<< >>, HeaderOnlyGrid>>, text |-> PlainText] }

SegmentDocuments == UNION { [1..n -> SegmentPageKinds] : n \in 0..MaxPages }

InitSegment ==
    /\ pdf \in SegmentDocuments
    /\ pc = "segment"
    /\ file = "pdf"
    /\ tp = [domain |-> FALSE, token |-> FALSE]
    /\ request = NoRequest
    /\ Fresh

InitFaults ==
    /\ pdf \in FaultDocuments
    /\ pc = "segment"
    /\ file = "pdf"
    /\ tp = [domain |-> FALSE, token |-> FALSE]
    /\ request = NoRequest
    /\ Fresh

Raise(step, cause) ==
    /\ raised' = <<[step |-> step, cause |-> cause]>>
    /\ pc' = "raised"

\* pdfplumber.open(pdf_path): a file that is no PDF never opens
Opens(io) == IF file = "pdf" THEN io ELSE {FALSE}

\* "Critical error opening PDF" logged and the tables found so far returned
CriticalOpenErrorSwallowed ==
    /\ pc' = "markdown"
    /\ UNCHANGED raised

\* "Critical error opening PDF": logged and re-raised
CriticalOpenError == Raise("segment", "open")

\* Step 1: _extract_tables_from_pdf; a failure to open is re-raised
ExtractTablesFromPdf(io) ==
    /\ pc = "segment"
    /\ \E opened \in Opens(io), outcome \in [1..Len(pdf) -> SegOutcomes(io)] :
          IF ~opened
          THEN /\ CriticalOpenError
               /\ UNCHANGED tables_data
          ELSE /\ tables_data' = ExtractTables(pdf, outcome)
               /\ pc' = "markdown"
               /\ UNCHANGED raised
    /\ UNCHANGED <<pdf, markdown, milestone_tables, milestone_text, idx, all_milestones,
                   calls, last, from_blocks, milestones, deliverables_call, result>>
    /\ UNCHANGED <<svars, evars>>

\* Step 2: _convert_pdf_to_markdown, which guards none of its reader calls,
\* then _save_markdown, which swallows a failed write
ConvertAndSaveMarkdown(io) ==
    /\ pc = "markdown"
    /\ \E opened \in Opens(io), outcome \in [1..Len(pdf) -> [text : io, tables : io]],
          written \in io :
          IF ~opened
          THEN /\ Raise("markdown", "open")
               /\ UNCHANGED markdown
          ELSE IF \E i \in 1..Len(pdf) : ~outcome[i].text \/ ~outcome[i].tables
          THEN /\ Raise("markdown", "page")
               /\ UNCHANGED markdown
          ELSE /\ markdown' = [rendered |-> ConvertPdfToMarkdown(pdf), written |-> written]
               /\ pc' = "identify"
               /\ UNCHANGED raised
    /\ UNCHANGED <<pdf, tables_data, milestone_tables, milestone_text, idx, all_milestones,
                   calls, last, from_blocks, milestones, deliverables_call, result>>
    /\ UNCHANGED <<svars, evars>>

\* Step 3: _identify_milestone_tables and _extract_milestone_text
IdentifyMilestoneContent(io) ==
    /\ pc = "identify"
    /\ milestone_tables' = IdentifyMilestoneTables(tables_data)
    /\ \E opened \in Opens(io), outcome \in [1..Len(pdf) -> TextOutcomes(io)] :
          milestone_text' = ExtractMilestoneText(pdf, opened, outcome)
    /\ pc' = "blocks"
    /\ UNCHANGED <<pdf, tables_data, markdown, idx, all_milestones, calls, last,
                   from_blocks, milestones, deliverables_call, result, raised>>
    /\ UNCHANGED <<svars, evars>>

CallRecord(kind, source_data) ==
    [kind |-> kind, page |-> source_data.page, table_index |-> source_data.table_index]

\* the loop run from the last relevant block to the first
NextTableReversed(tables, done) == tables[Len(tables) - done]

\* `for table_data in milestone_tables`: the block after `done` passes
NextTable(tables, done) == tables[done + 1]

\* Step 4, "Process tables": one pass of the loop over milestone_tables
ProcessBlock(responses) ==
    /\ pc = "blocks"
    /\ idx < Len(milestone_tables)
    /\ \E response \in responses :
          LET table_data == NextTable(milestone_tables, idx)
              source_data == BlockSource(table_data)
              r == ProcessMilestoneContent(table_data.text_content, source_data, response)
          IN  /\ calls' = IF r.called THEN Append(calls, CallRecord("block", source_data))
                          ELSE calls
              /\ last' = [kind |-> "block", called |-> r.called, response |-> response,
                          before |-> all_milestones]
              /\ IF r.raises
                 THEN /\ Raise("blocks", "service")
                      /\ UNCHANGED <<all_milestones, idx>>
                 ELSE /\ all_milestones' = Extend(all_milestones, r.value)
                      /\ idx' = idx + 1
                      /\ UNCHANGED <<pc, raised>>
    /\ UNCHANGED <<pdf, tables_data, markdown, milestone_tables, milestone_text,
                   from_blocks, milestones, deliverables_call, result>>
    /\ UNCHANGED <<svars, evars>>

\* Step 4, after the loop: the text pool, then the removal of duplicates
ProcessTextAndRemoveDuplicates(responses) ==
    /\ pc = "blocks"
    /\ idx = Len(milestone_tables)
    /\ from_blocks' = Len(all_milestones)
    /\ \E response \in responses :
          LET needed == NeedsTextPool(milestone_text, Len(all_milestones))
              r == IF needed
                   THEN ProcessMilestoneContent(milestone_text, NoSource, response)
                   ELSE Returns(FALSE, Array(<< >>))
              collected == Extend(all_milestones, r.value)
              d == RemoveDuplicates(collected)
          IN  /\ IF needed
                 THEN /\ calls' = IF r.called
                                  THEN Append(calls, CallRecord("text", NoSource))
                                  ELSE calls
                      /\ last' = [kind |-> "text", called |-> r.called,
                                  response |-> response, before |-> all_milestones]
                 ELSE UNCHANGED <<calls, last>>
              /\ IF r.raises
                 THEN /\ Raise("text", "service")
                      /\ UNCHANGED <<all_milestones, milestones>>
                 ELSE /\ all_milestones' = collected
                      /\ IF d.raises
                         THEN /\ Raise("dedup", "unhashable")
                              /\ UNCHANGED milestones
                         ELSE /\ milestones' = d.unique
                              /\ pc' = "deliverables"
                              /\ UNCHANGED raised
    /\ UNCHANGED <<pdf, tables_data, markdown, milestone_tables, milestone_text, idx,
                   deliverables_call, result>>
    /\ UNCHANGED <<svars, evars>>

\* the envelope with tables_found counting the relevant blocks only
EnvelopeRelevantOnly(deliverables) ==
    [milestones |-> milestones,
     deliverables |-> deliverables,
     metadata |-> [processing_confidence |-> ProcessingConfidence,
                   tables_found |-> Len(milestone_tables),
                   milestone_tables_identified |-> Len(milestone_tables),
                   markdown_saved |-> TRUE]]

\* the return statement of extract_from_pdf
Envelope(deliverables) ==
    [milestones |-> milestones,
     deliverables |-> deliverables,
     metadata |-> [processing_confidence |-> ProcessingConfidence,
                   tables_found |-> Len(tables_data),
                   milestone_tables_identified |-> Len(milestone_tables),
                   markdown_saved |-> TRUE]]

\* Step 5: _extract_deliverables_from_text, which guards neither the open
\* nor the page reads, and the return of the envelope
ExtractDeliverablesAndReturn(io, responses) ==
    /\ pc = "deliverables"
    /\ \E opened \in Opens(io), outcome \in [1..Len(pdf) -> io], response \in responses :
          IF ~opened
          THEN /\ Raise("deliverables", "open")
               /\ UNCHANGED <<calls, deliverables_call, result>>
          ELSE IF \E i \in 1..Len(pdf) : ~outcome[i]
          THEN /\ Raise("deliverables", "page")
               /\ UNCHANGED <<calls, deliverables_call, result>>
          ELSE IF DeliverablesScan(pdf) = << >>
          THEN /\ result' = <<Envelope(Array(<< >>))>>
               /\ pc' = "returned"
               /\ UNCHANGED <<calls, deliverables_call, raised>>
          ELSE /\ calls' = Append(calls, CallRecord("deliverables", NoSource))
               /\ deliverables_call' = <<response>>
               /\ LET r == DeliverablesFromResponse(response)
                  IN  IF r.raises
                      THEN /\ Raise("deliverables", "service")
                           /\ UNCHANGED result
                      ELSE /\ result' = <<Envelope(r.value)>>
                           /\ pc' = "returned"
                           /\ UNCHANGED raised
    /\ UNCHANGED <<pdf, tables_data, markdown, milestone_tables, milestone_text, idx,
                   all_milestones, last, from_blocks, milestones>>
    /\ UNCHANGED <<svars, evars>>

\* every completion response, dependable reader and file system
Next ==
    \/ ExtractTablesFromPdf(Dependable)
    \/ ConvertAndSaveMarkdown(Dependable)
    \/ IdentifyMilestoneContent(Dependable)
    \/ ProcessBlock(Responses)
    \/ ProcessTextAndRemoveDuplicates(Responses)
    \/ ExtractDeliverablesAndReturn(Dependable, DeliverableResponses)

Spec == Init /\ [][Next]_vars

\* every reader and file system call may raise, a few completion responses
FewResponses == {Ok(<<Json(Array(<<Kickoff1>>))>>), Ok(<<Prose>>)}
FewDeliverableResponses == {Ok(<<Json(Array(<<Report, Handbook, Report>>))>>), ServiceError}

NextFaults ==
    \/ ExtractTablesFromPdf(Faulty)
    \/ ConvertAndSaveMarkdown(Faulty)
    \/ IdentifyMilestoneContent(Faulty)
    \/ ProcessBlock(FewResponses)
    \/ ProcessTextAndRemoveDuplicates(FewResponses)
    \/ ExtractDeliverablesAndReturn(Faulty, FewDeliverableResponses)

SpecFaults == InitFaults /\ [][NextFaults]_vars

\* steps 1 to 3 alone, dependable reader
NextSegment ==
    \/ ExtractTablesFromPdf(Dependable)
    \/ ConvertAndSaveMarkdown(Dependable)
    \/ IdentifyMilestoneContent(Dependable)

SpecSegment == InitSegment /\ [][NextSegment]_vars

\* steps 1 to 3 alone, every reader call of steps 1 and 3 may raise
NextRelevance ==
    \/ ExtractTablesFromPdf(Faulty)
    \/ ConvertAndSaveMarkdown(Dependable)
    \/ IdentifyMilestoneContent(Faulty)

SpecRelevance == InitFaults /\ [][NextRelevance]_vars

\* steps 1-3 over the segmenter's pages, with a segmenter whose reader calls
\* may raise page by page
NextSegmentFaults ==
    \/ ExtractTablesFromPdf(Faulty)
    \/ ConvertAndSaveMarkdown(Dependable)
    \/ IdentifyMilestoneContent(Dependable)

SpecSegmentFaults == InitSegment /\ [][NextSegmentFaults]_vars

(***************************************************************************)
(* Around extract_from_pdf: process_sow_document, the TargetProcess sync   *)
(* and the response model of the endpoint                                  *)
(***************************************************************************)
Settings == [domain : BOOLEAN, token : BOOLEAN]

\* what one send_milestone does: a parsed reply, a reply that is no XML,
\* raise_for_status raising, the transport raising
SendOutcomes == {"created", "unparsable", "http_error", "request_error"}

\* send_milestone returns a dict for the first two and raises for the others
SendMilestone(outcome) == outcome \in {"created", "unparsable"}

\* a batch that gives up at the first send that raises
SendMilestonesBatchUntilFailure(list, outcome) ==
    LET failed == {i \in 1..Len(list) : ~SendMilestone(outcome[i])}
        stop == IF failed = {} THEN Len(list)
                ELSE CHOOSE i \in failed : \A j \in failed : i <= j
    IN  [i \in 1..stop |-> SendMilestone(outcome[i])]

\* send_milestones_batch: a raising send leaves None in the results
SendMilestonesBatch(list, outcome) ==
    IF tp.domain /\ tp.token
    THEN [i \in 1..Len(list) |-> SendMilestone(outcome[i])]
    ELSE << >>

\* the values len() accepts
HasLen(v) == Iterable(v)

\* result["metadata"].update({...}); processing_time, a wall-clock reading,
\* is left out
UpdatedMetadata(envelope, tp_sync_status, tp_milestones_sent) ==
    [processing_confidence |-> envelope.metadata.processing_confidence,
     tables_found |-> envelope.metadata.tables_found,
     milestone_tables_identified |-> envelope.metadata.milestone_tables_identified,
     markdown_saved |-> envelope.metadata.markdown_saved,
     milestones_extracted |-> Len(envelope.milestones),
     deliverables_extracted |-> Len(envelope.deliverables.items),
     extraction_method |-> "enhanced_table_extraction",
     targetprocess_sync_status |-> tp_sync_status,
     targetprocess_milestones_sent |-> tp_milestones_sent]

\* process_sow_document up to the call of extract_from_pdf
StartProcessing ==
    /\ pc = "start"
    /\ orchestrated' = TRUE
    /\ IF file = "missing"
       THEN Raise("orchestrator", "not_found")
       ELSE /\ pc' = "segment"
            /\ UNCHANGED raised
    /\ UNCHANGED <<pdf, tables_data, markdown, milestone_tables, milestone_text, idx,
                   all_milestones, calls, last, from_blocks, milestones,
                   deliverables_call, result, svars, request, temp_file>>

\* process_sow_document after extract_from_pdf has returned: the sync, then
\* the metadata; len() of deliverables that are no list, dict or str raises
\* and the exception is re-raised
SyncAndUpdateMetadata ==
    /\ pc = "returned"
    /\ \E outcome \in (IF tp.domain /\ tp.token
                       THEN [1..Len(result[1].milestones) -> SendOutcomes]
                       ELSE {<< >>}) :
          LET envelope == result[1]
              configured == tp.domain /\ tp.token
              tp_results == IF configured
                            THEN SendMilestonesBatch(envelope.milestones, outcome)
                            ELSE << >>
              tp_milestones_sent == Cardinality({i \in 1..Len(tp_results) : tp_results[i]})
              tp_sync_status == IF ~configured THEN "not_configured"
                                ELSE IF tp_milestones_sent > 0 THEN "success"
                                ELSE "failed"
          IN  /\ sends' = tp_results
              /\ IF ~HasLen(envelope.deliverables)
                 THEN /\ Raise("orchestrator", "type_error")
                      /\ UNCHANGED final
                 ELSE /\ final' = <<[milestones |-> envelope.milestones,
                                     deliverables |-> envelope.deliverables,
                                     metadata |-> UpdatedMetadata(envelope, tp_sync_status,
                                                                  tp_milestones_sent)]>>
                      /\ pc' = "processed"
                      /\ UNCHANGED raised
    /\ UNCHANGED <<pdf, tables_data, markdown, milestone_tables, milestone_text, idx,
                   all_milestones, calls, last, from_blocks, milestones,
                   deliverables_call, result, file, tp, http, evars>>

\* a str field of the response models: required, and None is no str
IsStr(value) == value \notin {Absent, Null, ListValue}
\* an Optional[str] field: may be missing or None
IsOptionalStr(value) == value # ListValue

\* Milestone(**m) had name and description been declared Optional[str]
ValidMilestoneLoose(m) ==
    /\ IsOptionalStr(m.name)
    /\ IsOptionalStr(m.description)
    /\ IsOptionalStr(m.due_date)
    /\ IsOptionalStr(m.payment_amount)

\* Milestone(**m): name and description are required str
ValidMilestone(m) ==
    /\ IsStr(m.name)
    /\ IsStr(m.description)
    /\ IsOptionalStr(m.due_date)
    /\ IsOptionalStr(m.payment_amount)

ValidDeliverable(d) ==
    /\ d.obj
    /\ IsStr(d.name)
    /\ IsStr(d.description)
    /\ IsOptionalStr(d.delivery_date)
    /\ IsOptionalStr(d.related_milestone)

\* SOWExtractionResponse(**result) passes validation
ValidResponse(envelope) ==
    /\ \A i \in 1..Len(envelope.milestones) : ValidMilestone(envelope.milestones[i])
    /\ envelope.deliverables.type = "array"
    /\ \A i \in 1..Len(envelope.deliverables.items) :
          ValidDeliverable(envelope.deliverables.items[i])

\* a missing optional field is serialised as null; source_table is no field
\* of the response model
Optional(value) == IF value = Absent THEN Null ELSE value

ResponseMilestone(m) ==
    [name |-> m.name, description |-> m.description,
     due_date |-> Optional(m.due_date), payment_amount |-> Optional(m.payment_amount)]

\* `if temp_file_path and os.path.exists(temp_file_path): os.unlink(...)`
Unlink(temp) == IF temp.path THEN [temp EXCEPT !.exists = FALSE] ELSE temp

\* the end of extract_sow and extract_sow_base64: the response model is
\* built from the envelope; any exception becomes a 500; the finally clause
\* removes the temporary file
Respond ==
    /\ pc \in {"processed", "raised"}
    /\ http' = IF pc = "processed" /\ ValidResponse(final[1])
               THEN <<[status |-> 200,
                       milestones |-> [i \in 1..Len(final[1].milestones) |->
                                          ResponseMilestone(final[1].milestones[i])]]>>
               ELSE <<[status |-> 500, milestones |-> << >>]>>
    /\ temp_file' = Unlink(temp_file)
    /\ pc' = "responded"
    /\ UNCHANGED <<pdf, tables_data, markdown, milestone_tables, milestone_text, idx,
                   all_milestones, calls, last, from_blocks, milestones,
                   deliverables_call, result, raised, file, tp, sends, final,
                   request, orchestrated>>

ServicePageKinds ==
    { [tables |-> <<KickoffGrid>>, text |-> KickoffText],
      [tables |-> <<HeaderOnlyGrid, SplitDueDateGrid>>, text |-> DeliverablesPageText],
      [tables |-> << >>, text |-> ScheduleText] }

ServiceDocuments == UNION { [1..n -> ServicePageKinds] : n \in 0..MaxPages }

ServiceResponses ==
    { Ok(<<Fence, Lang, Json(Array(<<Kickoff2>>)), Fence>>),
      Ok(<<Json(Array(<<Unnamed, Undescribed>>))>>) }

ServiceDeliverableResponses ==
    { Ok(<<Json(Array(<<Report, Handbook, Report>>))>>),
      Ok(<<Json(Number)>>) }

\* process_sow_document is entered by the endpoint with the path of the
\* uploaded file
InitService ==
    /\ file \in {"pdf", "not_pdf", "missing"}
    /\ pdf \in (IF file = "pdf" THEN ServiceDocuments ELSE {<< >>})
    /\ pc = "start"
    /\ tp \in Settings
    /\ request = NoRequest
    /\ Fresh

\* the whole request: a segmenter whose reader calls may raise, a dependable
\* reader after it, a few completion responses
NextService ==
    \/ StartProcessing
    \/ ExtractTablesFromPdf(Faulty)
    \/ ConvertAndSaveMarkdown(Dependable)
    \/ IdentifyMilestoneContent(Dependable)
    \/ ProcessBlock(ServiceResponses)
    \/ ProcessTextAndRemoveDuplicates(ServiceResponses)
    \/ ExtractDeliverablesAndReturn(Dependable, ServiceDeliverableResponses)
    \/ SyncAndUpdateMetadata
    \/ Respond

SpecService == InitService /\ [][NextService]_vars

(***************************************************************************)
(* The endpoints /extract-sow and /extract-sow-base64 up to the call of    *)
(* process_sow_document                                                    *)
(***************************************************************************)
\* filename_pdf: the filename ends in .pdf; decodes: file_content is valid
\* base64; magic: the decoded content starts with %PDF.  /extract-sow looks
\* at neither of the last two.
Requests ==
    { [endpoint |-> "upload", filename_pdf |-> f, decodes |-> TRUE, magic |-> TRUE] :
        f \in BOOLEAN }
    \cup
    { [endpoint |-> "base64", filename_pdf |-> f, decodes |-> d, magic |-> m] :
        f \in BOOLEAN, d \in BOOLEAN, m \in BOOLEAN }

\* `raise HTTPException(status_code=400, ...)`
Reject ==
    /\ http' = <<[status |-> 400, milestones |-> << >>]>>
    /\ pc' = "responded"
    /\ UNCHANGED <<raised, temp_file>>

\* the endpoint up to the call of process_sow_document: the checks of the
\* request, then the upload saved to a NamedTemporaryFile(delete=False);
\* temp_file_path is assigned last, after the read and the write
ReceiveRequest(io) ==
    /\ pc = "request"
    /\ \E created \in io, written \in io :
          IF ~request.filename_pdf THEN Reject
          ELSE IF request.endpoint = "base64" /\ ~request.decodes THEN Reject
          ELSE IF request.endpoint = "base64" /\ ~request.magic THEN Reject
          ELSE IF ~created
          THEN /\ Raise("endpoint", "create")
               /\ UNCHANGED <<http, temp_file>>
          ELSE IF ~written
          THEN /\ Raise("endpoint", "write")
               /\ temp_file' = [exists |-> TRUE, path |-> FALSE]
               /\ UNCHANGED http
          ELSE /\ temp_file' = [exists |-> TRUE, path |-> TRUE]
               /\ pc' = "start"
               /\ UNCHANGED <<http, raised>>
    /\ UNCHANGED <<pdf, tables_data, markdown, milestone_tables, milestone_text, idx,
                   all_milestones, calls, last, from_blocks, milestones,
                   deliverables_call, result, file, tp, sends, final,
                   request, orchestrated>>

\* a request arrives; content that is a readable PDF decodes and starts
\* with %PDF
InitEndpoint ==
    /\ request \in Requests
    /\ file \in (IF request.decodes /\ request.magic THEN {"pdf", "not_pdf"}
                 ELSE {"not_pdf"})
    /\ pdf \in (IF file = "pdf" THEN ServiceDocuments ELSE {<< >>})
    /\ pc = "request"
    /\ tp = [domain |-> FALSE, token |-> FALSE]
    /\ Fresh

\* the whole request from its arrival: the saving of the upload may fail,
\* the reader is dependable, TargetProcess is not configured
NextEndpoint ==
    \/ ReceiveRequest(Faulty)
    \/ StartProcessing
    \/ ExtractTablesFromPdf(Dependable)
    \/ ConvertAndSaveMarkdown(Dependable)
    \/ IdentifyMilestoneContent(Dependable)
    \/ ProcessBlock(ServiceResponses)
    \/ ProcessTextAndRemoveDuplicates(ServiceResponses)
    \/ ExtractDeliverablesAndReturn(Dependable, ServiceDeliverableResponses)
    \/ SyncAndUpdateMetadata
    \/ Respond

SpecEndpoint == InitEndpoint /\ [][NextEndpoint]_vars

TypeOK ==
    /\ pc \in {"request", "start", "segment", "markdown", "identify", "blocks", "deliverables",
              "returned", "raised", "processed", "responded"}
    /\ idx \in 0..Len(milestone_tables)
    /\ Len(result) <= 1
    /\ Len(raised) <= 1
    /\ (pc \in {"returned", "processed"}) => (result # << >>)
    /\ (pc = "raised") => (raised # << >>)
    /\ (pc = "processed") = (final # << >> /\ http = << >>)
    /\ (pc = "responded") = (http # << >>)
    /\ request \in Requests \cup {NoRequest}
    /\ temp_file \in [exists : BOOLEAN, path : BOOLEAN]
    /\ temp_file.path => orchestrated \/ pc \in {"start", "request"}
    /\ orchestrated \in BOOLEAN

(***************************************************************************)
(* Properties                                                              *)
(***************************************************************************)
TextCalls == Cardinality({i \in 1..Len(calls) : calls[i].kind = "text"})

\* the block loop has ended and the text pool has been decided on
Decided ==
    \/ pc \in {"deliverables", "returned"}
    \/ pc = "raised" /\ raised[1].step \in {"dedup", "deliverables"}

IsTextTag(tag) ==
    tag = [page |-> TextContentPage, table_index |-> TextIndex, confidence |-> TextConfidence]

FromBlock(milestone) ==
    /\ milestone.source_table # << >>
    /\ milestone.source_table[1].confidence = TableConfidence

FromText(milestone) ==
    /\ milestone.source_table # << >>
    /\ IsTextTag(milestone.source_table[1])

\* C1: once the block-level calls have returned 5 or more milestones, counted
\* as collected, no text-pool completion call is ever issued in the run.
C1_ShortCircuit ==
    (Decided /\ from_blocks >= FewMilestones) => TextCalls = 0

C1_Witness ==
    /\ pc = "returned"
    /\ from_blocks >= FewMilestones
    /\ milestone_text # << >>
    /\ TextCalls = 0

\* C2 as stated: once the block-level calls have returned fewer than 5
\* milestones, the text-pool completion call has been issued exactly once.
C2_AlwaysOnce ==
    (Decided /\ from_blocks < FewMilestones) => TextCalls = 1

\* C2: once the block-level calls have returned fewer than 5 milestones, the
\* text-pool completion call has been issued exactly once when the text pool
\* is non-empty and not at all when it is empty, whatever the number of blocks.
C2_OnceIfPool ==
    (Decided /\ from_blocks < FewMilestones) =>
        TextCalls = (IF milestone_text # << >> THEN 1 ELSE 0)

C2_Witness ==
    /\ pc = "returned"
    /\ Len(milestone_tables) = 2
    /\ from_blocks \in 1..(FewMilestones - 1)
    /\ TextCalls = 1

FirstOfKey(list) ==
    LET first == SelectIdx([i \in 1..Len(list) |->
                               \A j \in 1..(i - 1) : Key(list[j]) # Key(list[i])],
                           1, Len(list))
    IN  [k \in 1..Len(first) |-> list[first[k]]]

\* C4: the returned milestones are exactly the first record of every key, in
\* collection order, and in that order every record of a block-level call
\* comes before every record of the text-pool call; of two blocks' records
\* with one key, the first-processed block's record is the one returned.
C4_FirstWins ==
    result # << >> =>
        /\ result[1].milestones = FirstOfKey(all_milestones)
        /\ \A i, j \in 1..Len(all_milestones) :
              (FromText(all_milestones[i]) /\ FromBlock(all_milestones[j])) => j < i

C4_Witness ==
    /\ result # << >>
    /\ \E i, j \in 1..Len(all_milestones) :
          /\ i < j
          /\ FromBlock(all_milestones[i]) /\ FromBlock(all_milestones[j])
          /\ all_milestones[i].source_table # all_milestones[j].source_table
          /\ Key(all_milestones[i]) = Key(all_milestones[j])
          /\ all_milestones[i].description # all_milestones[j].description
          /\ Cardinality({k \in 1..Len(result[1].milestones) :
                 Key(result[1].milestones[k]) = Key(all_milestones[i])}) = 1
          /\ \E k \in 1..Len(result[1].milestones) :
                result[1].milestones[k] = all_milestones[i]
    /\ \E i \in 1..Len(all_milestones) : FromText(all_milestones[i])

\* C5: removing duplicates from the list that the removal of duplicates
\* produced gives that list back, same records in the same order.
C5_Idempotent ==
    pc \in {"deliverables", "returned"} =>
        RemoveDuplicates(milestones) = [raises |-> FALSE, unique |-> milestones]

C5_Witness ==
    /\ pc = "returned"
    /\ Len(milestones) >= 2
    /\ Len(all_milestones) >= Len(milestones) + 2

\* C6: every returned milestone carries exactly one provenance tag, either
\* (page, table_index, 1.0) of a block kept by the relevance pass of this run,
\* or ("text_content", "text", 0.8), the latter only when the text pool is
\* non-empty.
C6_Provenance ==
    result # << >> =>
        \A k \in 1..Len(result[1].milestones) :
            LET m == result[1].milestones[k]
            IN  /\ Len(m.source_table) = 1
                /\ \/ /\ m.source_table[1].confidence = TableConfidence
                      /\ \E b \in 1..Len(milestone_tables) :
                            /\ milestone_tables[b].page = m.source_table[1].page
                            /\ milestone_tables[b].table_index = m.source_table[1].table_index
                   \/ /\ IsTextTag(m.source_table[1])
                      /\ milestone_text # << >>

C6_Witness ==
    /\ result # << >>
    /\ \E k \in 1..Len(result[1].milestones) : FromBlock(result[1].milestones[k])
    /\ \E k \in 1..Len(result[1].milestones) : FromText(result[1].milestones[k])
    /\ \E k \in 1..Len(result[1].milestones) : result[1].milestones[k].due_date = "2024-02-01"

\* responses whose text is not JSON: prose, prose around a JSON value, a
\* lone code fence
NotJsonResponses ==
    { Ok(<<Prose>>), Ok(<<Prose, Json(Array(<<Kickoff1>>))>>), Ok(<<Fence>>) }

\* C7: a completion call answered with text that is not JSON adds nothing to
\* the collected milestones and removes nothing from them, and the text-pool
\* decision after such a block-level call counts what was collected before it.
C7_NotJsonTolerated ==
    (last.called /\ last.response \in NotJsonResponses) =>
        /\ all_milestones = last.before
        /\ (Decided /\ last.kind = "block") => from_blocks = Len(last.before)

C7_Witness ==
    /\ pc = "returned"
    /\ last.kind = "text"
    /\ last.called
    /\ last.response = Ok(<<Prose>>)
    /\ last.before # << >>
    /\ result[1].milestones # << >>

\* responses that are JSON but no array of objects
NotArrayOfObjects(response) ==
    /\ response.status = "ok"
    /\ Len(response.content) = 1
    /\ response.content[1].t = "json"
    /\ \/ response.content[1].v.type # "array"
       \/ \E i \in 1..Len(response.content[1].v.items) : ~response.content[1].v.items[i].obj

\* C8: a completion response that is JSON but no array of objects contributes
\* nothing: the milestone call adds no milestone, and the deliverables of the
\* returned envelope are the empty list.
C8_NotArrayContributesNothing ==
    /\ (last.called /\ NotArrayOfObjects(last.response)) => all_milestones = last.before
    /\ (result # << >> /\ deliverables_call # << >> /\ NotArrayOfObjects(deliverables_call[1]))
          => result[1].deliverables = Array(<< >>)

\* C9: no failure of a reader call on one page leaves extract_from_pdf as an
\* exception, whichever step made the call.
C9_PageFailureContained ==
    raised # << >> => raised[1].cause # "page"

\* C10: no failure of the markdown side-channel, rendering or writing, leaves
\* extract_from_pdf as an exception.
C10_MarkdownNeverFails ==
    raised # << >> => raised[1].step # "markdown"

\* C11: when pdf_path holds no PDF, or nothing at all, the run ends in the
\* exception, which reaches the endpoint as a 500; extract_from_pdf goes no
\* further than the segmentation, no envelope is returned by it or by
\* process_sow_document, and no completion call, markdown write or
\* TargetProcess send is made.
C11_OpenFailurePropagates ==
    file # "pdf" =>
        /\ pc \in {"start", "segment", "raised", "responded"}
        /\ result = << >>
        /\ final = << >>
        /\ calls = << >>
        /\ ~markdown.written
        /\ sends = << >>
        /\ (pc \in {"raised", "responded"}) =>
              /\ raised # << >>
              /\ raised[1] = IF file = "missing"
                             THEN [step |-> "orchestrator", cause |-> "not_found"]
                             ELSE [step |-> "segment", cause |-> "open"]
        /\ (pc = "responded") => http[1].status = 500

C11_Witness ==
    /\ file = "not_pdf"
    /\ pc = "responded"
    /\ raised = <<[step |-> "segment", cause |-> "open"]>>
    /\ http[1].status = 500

BlockCalls == Cardinality({i \in 1..Len(calls) : calls[i].kind = "block"})

\* a completion call that was issued and on which the service raised
ServiceRaised(call) == call.called /\ call.response = ServiceError

\* C12: a completion call on which the service raises adds nothing to the
\* collected milestones and removes nothing; no exception of the service
\* leaves extract_from_pdf; once the block loop is over a call has been issued
\* for every relevant block; after a failed last block call the text pool is
\* decided on the count collected before it; and a deliverables call on which
\* the service raises gives an envelope with the empty deliverables list.
C12_ServiceFailureContained ==
    /\ ServiceRaised(last) => all_milestones = last.before
    /\ raised # << >> => raised[1].cause # "service"
    /\ Decided => BlockCalls = Len(milestone_tables)
    /\ (Decided /\ last.kind = "block" /\ ServiceRaised(last)) =>
          /\ from_blocks = Len(last.before)
          /\ ~NeedsTextPool(milestone_text, from_blocks)
    /\ deliverables_call = <<ServiceError>> =>
          /\ pc = "returned"
          /\ result[1].deliverables = Array(<< >>)

C12_Witness ==
    /\ pc = "blocks"
    /\ Len(milestone_tables) = 2
    /\ idx = 2
    /\ last.kind = "block"
    /\ ServiceRaised(last)
    /\ last.before # << >>

\* the document holds no grid at all
NoTables == \A i \in 1..Len(pdf) : pdf[i].tables = << >>

\* no page text holds a term of the vocabulary
FreeOf(vocabulary) ==
    \A i \in 1..Len(pdf) : \A term \in vocabulary : ~InText(term, LowerText(pdf[i].text))

\* the graceful end: no exception, and an envelope, once returned, that is empty
EmptyRun ==
    /\ raised = << >>
    /\ result # << >> =>
          /\ result[1].milestones = << >>
          /\ result[1].deliverables = Array(<< >>)
          /\ result[1].metadata.tables_found = 0

\* C13 as stated: a document with no grid and no page text holding a term of
\* the milestone-indicator vocabulary ends without an exception in an envelope
\* with no milestones, no deliverables and tables_found = 0.
C13_NoIndicatorEmpty == (NoTables /\ FreeOf(TableIndicators)) => EmptyRun

\* C13, amended: the same for a document with no grid and no page text
\* holding a term of the milestone-indicator vocabulary or of the vocabulary
\* of the page-text pass; no completion call is issued for it.
C13_NoKeywordEmpty ==
    (NoTables /\ FreeOf(TableIndicators \cup PageTextKeywords)) =>
        /\ EmptyRun
        /\ calls = << >>

C13_Witness ==
    /\ pc = "returned"
    /\ Len(pdf) = 2
    /\ pdf[1].text = PlainText
    /\ pdf[2].text = PlainText
    /\ NoTables
    /\ FreeOf(TableIndicators \cup PageTextKeywords)
    /\ result[1].milestones = << >>

\* the completion stub: one and the same one-milestone array
StubResponse == Ok(<<Json(Array(<<Kickoff1>>))>>)

KickoffFromTable ==
    [Kickoff1 EXCEPT !.source_table =
        <<[page |-> 0, table_index |-> 0, confidence |-> TableConfidence]>>]

KickoffFromText ==
    [Kickoff1 EXCEPT !.source_table =
        <<[page |-> TextContentPage, table_index |-> TextIndex, confidence |-> TextConfidence]>>]

\* a returned run over two pages whose one relevant block is the table of
\* page 0, every completion call of which was answered by the stub
StubbedRun ==
    /\ pc = "returned"
    /\ Len(pdf) = 2
    /\ pdf[1] = [tables |-> <<KickoffGrid>>, text |-> KickoffText]
    /\ Len(milestone_tables) = 1
    /\ milestone_tables[1].type = "table"
    /\ milestone_tables[1].page = 0
    /\ calls = <<CallRecord("block", BlockSource(milestone_tables[1])),
                 CallRecord("text", NoSource),
                 CallRecord("deliverables", NoSource)>>
    /\ all_milestones = <<KickoffFromTable, KickoffFromText>>
    /\ last.response = StubResponse
    /\ deliverables_call = <<StubResponse>>

\* C14: in that run the envelope holds exactly one milestone, the stub's,
\* tagged with page 0 and confidence 1.0, the record of the table.
C14_TableRecordSurvives ==
    StubbedRun =>
        /\ Len(result[1].milestones) = 1
        /\ result[1].milestones[1].name = "Kickoff"
        /\ result[1].milestones[1].source_table[1].confidence = TableConfidence
        /\ result[1].milestones[1].source_table[1].page = 0

C14_Witness ==
    /\ StubbedRun
    /\ pdf[2] = [tables |-> << >>, text |-> PlainText]
    /\ result[1].milestones = <<KickoffFromTable>>

\* a record with no name or no description: the field missing or null
Incomplete(m) == m.name \in {Absent, Null} \/ m.description \in {Absent, Null}

\* C15: every milestone of a 200 response has a name and a description, and a
\* run whose envelope holds a record without one of them is answered with
\* a 500 that carries no milestone.
C15_NamedAndDescribed ==
    http # << >> =>
        /\ http[1].status = 200 =>
              \A i \in 1..Len(http[1].milestones) : ~Incomplete(http[1].milestones[i])
        /\ (final # << >> /\ \E i \in 1..Len(final[1].milestones) :
                                 Incomplete(final[1].milestones[i])) =>
              /\ http[1].status = 500
              /\ http[1].milestones = << >>

C15_Witness ==
    /\ pc = "responded"
    /\ final # << >>
    /\ \E i \in 1..Len(final[1].milestones) : final[1].milestones[i].name = Absent
    /\ \E i \in 1..Len(final[1].milestones) : final[1].milestones[i].description = Null
    /\ \E i \in 1..Len(final[1].milestones) : ~Incomplete(final[1].milestones[i])
    /\ http[1].status = 500

\* C16: the completion calls logged so far begin with one call for each
\* relevant block already passed by the loop, in the order of the blocks; no
\* other call is a block call; once the loop is over every relevant block has
\* had its call; and a text-pool call comes right after the last block call.
C16_OncePerBlockInOrder ==
    /\ BlockCalls = idx
    /\ \A i \in 1..idx : calls[i] = CallRecord("block", BlockSource(milestone_tables[i]))
    /\ \A i \in (idx + 1)..Len(calls) : calls[i].kind # "block"
    /\ Decided => idx = Len(milestone_tables)
    /\ \A i \in 1..Len(calls) : calls[i].kind = "text" => i = Len(milestone_tables) + 1

C16_Witness ==
    /\ pc = "returned"
    /\ Len(milestone_tables) = 2
    /\ Len(calls) = 4
    /\ calls[1] = CallRecord("block", [page |-> 0, table_index |-> 0])
    /\ calls[2] = CallRecord("block", [page |-> 1, table_index |-> 0])
    /\ calls[3].kind = "text"
    /\ calls[4].kind = "deliverables"

\* _identify_milestone_tables has run
Identified ==
    \/ pc \in {"blocks", "deliverables", "returned"}
    \/ pc = "raised" /\ raised[1].step \in {"blocks", "text", "dedup", "deliverables"}

\* the number of terms of the block vocabulary that occur in the lower-cased
\* text representation of a block
Hits(block) ==
    Cardinality({term \in {"milestone", "phase", "payment", "due date", "amount",
                           "percentage", "description", "duration"} :
                    InText(term, LowerText(block.text_content))})

Relevant(block) == Hits(block) >= 3

\* C17: the relevant blocks are the segmenter's blocks with at least 3 terms
\* of the vocabulary, in the segmenter's order, whatever the kind of a block.
C17_KeptIffThreeTerms ==
    Identified => milestone_tables = SelectSeq(tables_data, Relevant)

C17_Witness ==
    /\ Identified
    /\ Len(tables_data) = 2
    /\ tables_data[1].type = "table"
    /\ Hits(tables_data[1]) = 2
    /\ tables_data[2].type = "fallback_text"
    /\ Hits(tables_data[2]) = 3
    /\ milestone_tables = <<tables_data[2]>>

\* the blocks of tables_data made of a grid, in their order
TableBlocks == SelectSeq(tables_data, LAMBDA b : b.type = "table")

\* C18: once the segmenter has returned, every table block is the block of a
\* grid of at least 2 rows, at that grid's page and position; every grid of
\* at least 2 rows has exactly one block; the blocks stand in page order and,
\* within a page, in the order of the grids; and a page all of whose grids
\* have fewer than 2 rows has no block at all.
C18_OneBlockPerGrid ==
    pc # "segment" =>
        /\ \A j \in 1..Len(TableBlocks) :
              LET b == TableBlocks[j]
              IN  /\ b.page + 1 \in 1..Len(pdf)
                  /\ b.table_index + 1 \in 1..Len(pdf[b.page + 1].tables)
                  /\ b.data = pdf[b.page + 1].tables[b.table_index + 1]
                  /\ Len(b.data) >= 2
        /\ \A i \in 1..Len(pdf) : \A k \in 1..Len(pdf[i].tables) :
              Len(pdf[i].tables[k]) >= 2 =>
                  Cardinality({j \in 1..Len(TableBlocks) :
                                  /\ TableBlocks[j].page = i - 1
                                  /\ TableBlocks[j].table_index = k - 1}) = 1
        /\ \A j1, j2 \in 1..Len(tables_data) :
              j1 < j2 =>
                  \/ tables_data[j1].page < tables_data[j2].page
                  \/ /\ tables_data[j1].page = tables_data[j2].page
                     /\ tables_data[j1].table_index < tables_data[j2].table_index
        /\ \A i \in 1..Len(pdf) :
              (/\ pdf[i].tables # << >>
               /\ \A k \in 1..Len(pdf[i].tables) : Len(pdf[i].tables[k]) < 2) =>
                  \A j \in 1..Len(tables_data) : tables_data[j].page # i - 1

C18_Witness ==
    /\ pc = "blocks"
    /\ pdf = <<[tables |-> <<HeaderOnlyGrid>>, text |-> ScheduleText],
               [tables |-> <<KickoffGrid, HeaderOnlyGrid, SplitDueDateGrid>>,
                text |-> KickoffText]>>
    /\ Len(tables_data) = 2
    /\ tables_data[1].page = 1 /\ tables_data[1].table_index = 0
    /\ tables_data[2].page = 1 /\ tables_data[2].table_index = 2

DeliverablesCalls == Cardinality({i \in 1..Len(calls) : calls[i].kind = "deliverables"})

\* some page's text holds deliverables or phase, in any case
HasDeliverablesText ==
    \E i \in 1..Len(pdf) :
        \/ InText("deliverables", LowerText(pdf[i].text))
        \/ InText("phase", LowerText(pdf[i].text))

\* the JSON array a response consists of, bare or inside a json code fence
ReturnedList(response) ==
    IF response.status # "ok" THEN << >>
    ELSE IF Len(response.content) = 1 /\ response.content[1].t = "json"
            /\ response.content[1].v.type = "array"
    THEN <<response.content[1].v>>
    ELSE IF Len(response.content) = 4 /\ response.content[1].t = "fence"
            /\ response.content[2].t = "lang" /\ response.content[3].t = "json"
            /\ response.content[4].t = "fence" /\ response.content[3].v.type = "array"
    THEN <<response.content[3].v>>
    ELSE << >>

\* C19: no run makes more than one deliverables call, and none without a page
\* text holding deliverables or phase; a returned run has made the call
\* exactly when there is such a page; and the envelope's deliverables are the
\* array of the response as it came: same records, same order, repeated
\* records included, nothing added to a record.
C19_OneCallListUnchanged ==
    /\ DeliverablesCalls <= 1
    /\ DeliverablesCalls = 1 => HasDeliverablesText
    /\ (deliverables_call # << >>) = (DeliverablesCalls = 1)
    /\ pc = "returned" =>
          /\ (DeliverablesCalls = 1) = HasDeliverablesText
          /\ (deliverables_call # << >> /\ ReturnedList(deliverables_call[1]) # << >>) =>
                result[1].deliverables = ReturnedList(deliverables_call[1])[1]

C19_Witness ==
    /\ pc = "returned"
    /\ DeliverablesCalls = 1
    /\ \E i \in 1..Len(pdf) : pdf[i].text = DeliverablesPageText
    /\ deliverables_call = <<Ok(<<Json(Array(<<Report, Handbook, Report>>))>>)>>
    /\ result[1].deliverables = Array(<<Report, Handbook, Report>>)

\* what C20 says of the metadata extract_from_pdf builds
CountsRight(metadata) ==
    /\ metadata.tables_found = Len(tables_data)
    /\ metadata.milestone_tables_identified = Len(milestone_tables)
    /\ metadata.milestone_tables_identified =
          Cardinality({j \in 1..Len(tables_data) : Relevant(tables_data[j])})
    /\ 0 <= metadata.milestone_tables_identified
    /\ metadata.milestone_tables_identified <= metadata.tables_found
    /\ metadata.processing_confidence = 95

\* C20: the metadata of the envelope of extract_from_pdf, and of the envelope
\* of process_sow_document after it, count the segmenter's blocks of every
\* kind and the relevant blocks among them and carry the confidence 0.95; the
\* latter also counts the milestones and the deliverables of the envelope.
C20_MetadataCounts ==
    /\ result # << >> => CountsRight(result[1].metadata)
    /\ final # << >> =>
          /\ CountsRight(final[1].metadata)
          /\ final[1].milestones = result[1].milestones
          /\ final[1].deliverables = result[1].deliverables
          /\ final[1].metadata.milestones_extracted = Len(final[1].milestones)
          /\ final[1].metadata.deliverables_extracted = Len(final[1].deliverables.items)

C20_Witness ==
    /\ pc = "processed"
    /\ Len(tables_data) = 2
    /\ tables_data[1].type = "fallback_text"
    /\ tables_data[2].type = "text_table"
    /\ final[1].metadata.tables_found = 2
    /\ final[1].metadata.milestone_tables_identified = 1
    /\ final[1].metadata.milestones_extracted = 2
    /\ final[1].metadata.deliverables_extracted = 3

Configured == tp.domain /\ tp.token

\* C21: the envelope process_sow_document returns carries the milestones of
\* extract_from_pdf unchanged; with domain and token set there is one send
\* result per milestone, whatever the earlier sends did, and none otherwise;
\* targetprocess_milestones_sent counts the sends that returned a response;
\* the status is not_configured exactly when domain or token is unset, and
\* otherwise success exactly when that count is positive and failed when it
\* is 0.  The only exception leaving process_sow_document after
\* extract_from_pdf is that of len() over deliverables, never one of a send.
C21_SyncNeverFails ==
    /\ final # << >> =>
          LET metadata == final[1].metadata
              sent == Cardinality({i \in 1..Len(sends) : sends[i]})
          IN  /\ final[1].milestones = result[1].milestones
              /\ Len(sends) = IF Configured THEN Len(result[1].milestones) ELSE 0
              /\ metadata.targetprocess_milestones_sent = sent
              /\ sent <= metadata.milestones_extracted
              /\ (metadata.targetprocess_sync_status = "not_configured") = ~Configured
              /\ Configured =>
                    /\ (metadata.targetprocess_sync_status = "success") = (sent > 0)
                    /\ (metadata.targetprocess_sync_status = "failed") = (sent = 0)
    /\ (result # << >> /\ pc # "returned" /\ final = << >>) =>
          /\ raised = <<[step |-> "orchestrator", cause |-> "type_error"]>>
          /\ ~HasLen(result[1].deliverables)

C21_Witness ==
    /\ pc = "processed"
    /\ Configured
    /\ Len(sends) = 3
    /\ ~sends[1]
    /\ sends[2]
    /\ ~sends[3]
    /\ final[1].metadata.targetprocess_sync_status = "success"
    /\ final[1].metadata.targetprocess_milestones_sent = 1

\* C22: an envelope says markdown_saved only when the markdown file was
\* written in that run.
C22_MarkdownSavedTruthful ==
    (result # << >> /\ result[1].metadata.markdown_saved) => markdown.written

\* C23: once a request is answered its temporary file does not exist, and a
\* request answered with 400 has not reached process_sow_document.
C23_TempFileRemoved ==
    pc = "responded" =>
        /\ ~temp_file.exists
        /\ http[1].status = 400 => ~orchestrated

BlocksOfPage(page_num) == SelectSeq(tables_data, LAMBDA b : b.page = page_num)

\* C24: no two blocks of the segmenter's output share (page, table_index); a
\* page gives table blocks with distinct indices or at most one text-backed
\* block with index 0, never both, whatever reader calls fail.
C24_DistinctProvenance ==
    /\ \A i, j \in 1..Len(tables_data) :
          (/\ tables_data[i].page = tables_data[j].page
           /\ tables_data[i].table_index = tables_data[j].table_index) => i = j
    /\ \A i \in 1..Len(tables_data) :
          tables_data[i].type \in {"text_table", "fallback_text"} =>
             /\ tables_data[i].table_index = 0
             /\ Len(BlocksOfPage(tables_data[i].page)) = 1

C24_Witness ==
    /\ pc = "markdown"
    /\ Len(tables_data) = 3
    /\ tables_data[1].type = "table" /\ tables_data[2].type = "table"
    /\ tables_data[1].page = tables_data[2].page
    /\ tables_data[1].table_index = 0 /\ tables_data[2].table_index = 2
    /\ tables_data[3].type = "fallback_text"
    /\ tables_data[3].table_index = 0

====
